---- MODULE Spec2Model ----
(***************************************************************************)
(* A model of wakey (src/src/lib.rs): the Wake-on-LAN packet library.      *)
(*                                                                         *)
(*   SpecBytes  a caller assembles a byte slice and calls from_bytes       *)
(*   SpecText   a caller assembles a string and a separator and calls      *)
(*              from_string                                                *)
(*   SpecSend   callers concurrently call send_magic / send_magic_to on a  *)
(*              shared packet, against a model of the OS socket table      *)
(*                                                                         *)
(* Characters are Unicode code points, bytes are 0..255, strings are       *)
(* sequences of code points.                                               *)
(***************************************************************************)
EXTENDS Integers, Sequences, FiniteSets, TLC

VARIABLES
    pc,        \* SpecBytes/SpecText: position of the caller; SpecSend: position of every caller
    mac,       \* the byte slice handed to from_bytes
    data,      \* the string handed to from_string
    sep,       \* the separator handed to from_string
    result,    \* the value the call returned (SpecSend: per caller)
    packet,    \* SpecSend: the WolPacket every caller sends (&self)
    args,      \* SpecSend: per caller, the entry point and the src/dst it was given
    udp_sock,  \* SpecSend: per caller, the local udp_sock (a descriptor) or NoSock
    fds,       \* SpecSend: the OS descriptor table, descriptor -> socket or Closed
    net,       \* SpecSend: the datagrams handed to the network, in order
    ops        \* SpecSend: per caller, the log of the socket operations it performed

vars == <<pc, mac, data, sep, result, packet, args, udp_sock, fds, net, ops>>

-----------------------------------------------------------------------------
(* Bounds of the model *)

\* longest byte slice handed to from_bytes
MaxMacLen == 7
\* most hexadecimal digits in the string a caller starts from
MaxDigits == 14
\* number of concurrent callers of send_magic / send_magic_to
NumCallers == 2

-----------------------------------------------------------------------------
(* Constants of the program *)

MAC_SIZE == 6
MAC_PER_MAGIC == 16
HEADER == [i \in 1..6 |-> 255]

-----------------------------------------------------------------------------
(* Result<T, Error> and the Error enum *)

Ok(v) == [ok |-> TRUE, val |-> v]
Err(e) == [ok |-> FALSE, err |-> e]

ErrHex(e) == [kind |-> "Hex", hex |-> e]
ErrIO(e) == [kind |-> "IO", io |-> e]
InvalidHexStringLength == [kind |-> "InvalidHexStringLength"]
InvalidHexArrayLength == [kind |-> "InvalidHexArrayLength"]

\* hex::FromHexError, as returned by hex::decode
OddLength == [kind |-> "OddLength"]
InvalidHexCharacter(c, index) == [kind |-> "InvalidHexCharacter", c |-> c, index |-> index]

\* the value of `result` before the call has returned
NotReturned == [pending |-> TRUE]

-----------------------------------------------------------------------------
(* Packet builder *)

RECURSIVE RepeatFlatten(_, _)
RepeatFlatten(s, n) == IF n = 0 THEN <<>> ELSE s \o RepeatFlatten(s, n - 1)

extend_mac_short(m) == RepeatFlatten(m, MAC_PER_MAGIC - 1)
extend_mac(m) == RepeatFlatten(m, MAC_PER_MAGIC)

create_packet_bytes(m) == HEADER \o extend_mac(m)

WolPacket(bytes) == [packet |-> bytes]

from_bytes_at_least(m) ==
    IF Len(m) >= MAC_SIZE
    THEN Ok(WolPacket(create_packet_bytes(m)))
    ELSE Err(InvalidHexArrayLength)
from_bytes(m) ==
    IF Len(m) = MAC_SIZE
    THEN Ok(WolPacket(create_packet_bytes(m)))
    ELSE Err(InvalidHexArrayLength)

-----------------------------------------------------------------------------
(* MAC codec *)

RECURSIVE Flatten(_)
Flatten(ss) == IF ss = <<>> THEN <<>> ELSE Head(ss) \o Flatten(Tail(ss))

\* str::split(sep): the pieces between the occurrences of sep (always at least one piece)
RECURSIVE SplitFrom(_, _, _)
SplitFrom(s, c, cur) ==
    IF s = <<>> THEN <<cur>>
    ELSE IF Head(s) = c THEN <<cur>> \o SplitFrom(Tail(s), c, <<>>)
    ELSE SplitFrom(Tail(s), c, Append(cur, Head(s)))
Split(s, c) == SplitFrom(s, c, <<>>)

\* str::bytes(): the UTF-8 encoding of a string (code points below 0x800)
Utf8(cp) ==
    IF cp < 128 THEN <<cp>>
    ELSE <<192 + (cp \div 64), 128 + (cp % 64)>>
StrBytes(s) == Flatten([i \in 1..Len(s) |-> Utf8(s[i])])

\* hex::decode: the value of one hexadecimal digit, or -1
HexVal(b) ==
    IF b >= 48 /\ b <= 57 THEN b - 48
    ELSE IF b >= 65 /\ b <= 70 THEN b - 65 + 10
    ELSE IF b >= 97 /\ b <= 102 THEN b - 97 + 10
    ELSE -1

\* hex::decode: odd length first, then the pairs in order, each high digit before its low digit
HexDecode(bs) ==
    IF Len(bs) % 2 # 0 THEN Err(OddLength)
    ELSE LET bad == {i \in 1..Len(bs) : HexVal(bs[i]) = -1}
         IN IF bad # {}
            THEN LET i == CHOOSE j \in bad : \A k \in bad : j <= k
                 IN Err(InvalidHexCharacter(bs[i], i - 1))
            ELSE Ok([k \in 1..(Len(bs) \div 2) |->
                        HexVal(bs[2 * k - 1]) * 16 + HexVal(bs[2 * k])])

mac_to_byte_keep_sep(d, s) ==
    LET hex_out == HexDecode(StrBytes(d))
    IN IF ~hex_out.ok THEN Err(ErrHex(hex_out.err))
       ELSE IF Len(hex_out.val) = MAC_SIZE THEN Ok(hex_out.val)
       ELSE Err(InvalidHexStringLength)
mac_to_byte_no_length_check(d, s) ==
    LET str_out == Flatten([i \in 1..Len(Split(d, s)) |-> StrBytes(Split(d, s)[i])])
        hex_out == HexDecode(str_out)
    IN IF ~hex_out.ok THEN Err(ErrHex(hex_out.err)) ELSE Ok(hex_out.val)
mac_to_byte_index_in_input(d, s) ==
    LET str_out == Flatten([i \in 1..Len(Split(d, s)) |-> StrBytes(Split(d, s)[i])])
        hex_out == HexDecode(str_out)
        raw == HexDecode(StrBytes(d))
    IN IF ~hex_out.ok
       THEN IF hex_out.err.kind = "InvalidHexCharacter" /\ ~raw.ok
                 /\ raw.err.kind = "InvalidHexCharacter"
            THEN Err(ErrHex(InvalidHexCharacter(hex_out.err.c, raw.err.index)))
            ELSE Err(ErrHex(hex_out.err))
       ELSE IF Len(hex_out.val) = MAC_SIZE THEN Ok(hex_out.val)
       ELSE Err(InvalidHexStringLength)
mac_to_byte(d, s) ==
    LET str_out == Flatten([i \in 1..Len(Split(d, s)) |-> StrBytes(Split(d, s)[i])])
        hex_out == HexDecode(str_out)
    IN IF ~hex_out.ok THEN Err(ErrHex(hex_out.err))
       ELSE IF Len(hex_out.val) = MAC_SIZE THEN Ok(hex_out.val)
       ELSE Err(InvalidHexStringLength)

from_string(d, s) ==
    LET bytes == mac_to_byte(d, s)
    IN IF ~bytes.ok THEN Err(bytes.err) ELSE from_bytes(bytes.val)

-----------------------------------------------------------------------------
(* SpecBytes: a caller assembles a byte slice, then calls from_bytes *)

ByteVals == {0, 18, 255}

NoArgs == <<>>

IdleSend ==
    /\ packet = <<>>
    /\ args = NoArgs
    /\ udp_sock = <<>>
    /\ fds = <<>>
    /\ net = <<>>
    /\ ops = <<>>

SendVars == <<packet, args, udp_sock, fds, net, ops>>

InitBytes ==
    /\ pc = "input"
    /\ mac = <<>>
    /\ data = <<>>
    /\ sep = 58
    /\ result = NotReturned
    /\ IdleSend

PushByte(b) ==
    /\ pc = "input"
    /\ Len(mac) < MaxMacLen
    /\ mac' = Append(mac, b)
    /\ UNCHANGED <<pc, data, sep, result, SendVars>>

CallFromBytes ==
    /\ pc = "input"
    /\ result' = from_bytes(mac)
    /\ pc' = "done"
    /\ UNCHANGED <<mac, data, sep, SendVars>>

NextBytes ==
    \/ \E b \in ByteVals : PushByte(b)
    \/ CallFromBytes

SpecBytes == InitBytes /\ [][NextBytes]_vars

-----------------------------------------------------------------------------
(* SpecText: a caller assembles a string and a separator, then calls from_string *)

\* ':' and ' ' (the separators of the tests), and '0', a separator that is also a digit
Separators == {58, 32, 48}

\* the digits a string starts from: "010203040506", "DEadBEefCAfe", "ZZ0203040506"
DigitSources == <<
    <<48, 49, 48, 50, 48, 51, 48, 52, 48, 53, 48, 54>>,
    <<68, 69, 97, 100, 66, 69, 101, 102, 67, 65, 102, 101>>,
    <<90, 90, 48, 50, 48, 51, 48, 52, 48, 53, 48, 54>> >>

\* the characters an edit may put into the string besides the separator: '0', 'Z', 'g', U+00E9
EditChars == {48, 90, 103, 233}

\* the first n characters of a digit source (repeated when n exceeds it)
Digits(src, n) == [i \in 1..n |-> src[((i - 1) % Len(src)) + 1]]

\* the digits with the separator between every two octets ("01:02:03")
Delimited(ds, c) ==
    Flatten([i \in 1..Len(ds) |->
                IF i % 2 = 1 /\ i > 1 THEN <<c, ds[i]>> ELSE <<ds[i]>>])

InitText ==
    /\ pc = "input"
    /\ mac = <<>>
    /\ sep \in Separators
    /\ \E k \in 1..Len(DigitSources), n \in 0..MaxDigits :
          data \in {Digits(DigitSources[k], n), Delimited(Digits(DigitSources[k], n), sep)}
    /\ result = NotReturned
    /\ IdleSend

InsertChar(i, c) ==
    /\ pc = "input"
    /\ data' = SubSeq(data, 1, i) \o <<c>> \o SubSeq(data, i + 1, Len(data))
    /\ pc' = "edited"
    /\ UNCHANGED <<mac, sep, result, SendVars>>

DeleteChar(i) ==
    /\ pc = "input"
    /\ data' = SubSeq(data, 1, i - 1) \o SubSeq(data, i + 1, Len(data))
    /\ pc' = "edited"
    /\ UNCHANGED <<mac, sep, result, SendVars>>

ReplaceChar(i, c) ==
    /\ pc = "input"
    /\ data[i] # c
    /\ data' = [data EXCEPT ![i] = c]
    /\ pc' = "edited"
    /\ UNCHANGED <<mac, sep, result, SendVars>>

CallFromString ==
    /\ pc \in {"input", "edited"}
    /\ result' = from_string(data, sep)
    /\ pc' = "done"
    /\ UNCHANGED <<mac, data, sep, SendVars>>

NextText ==
    \/ \E i \in 0..Len(data), c \in EditChars \cup {sep} : InsertChar(i, c)
    \/ \E i \in 1..Len(data) : DeleteChar(i)
    \/ \E i \in 1..Len(data), c \in EditChars \cup {sep} : ReplaceChar(i, c)
    \/ CallFromString

SpecText == InitText /\ [][NextText]_vars

-----------------------------------------------------------------------------
(* SpecSend: callers concurrently send one shared packet *)

Callers == 1..NumCallers

SocketAddr(ip, port) == [ip |-> ip, port |-> port]

\* what send_magic hands to send_magic_to
send_magic_args_port7 ==
    [src |-> SocketAddr(<<0, 0, 0, 0>>, 0), dst |-> SocketAddr(<<255, 255, 255, 255>>, 7)]
send_magic_args ==
    [src |-> SocketAddr(<<0, 0, 0, 0>>, 0), dst |-> SocketAddr(<<255, 255, 255, 255>>, 9)]

\* the (src, dst) pairs a caller hands to send_magic_to: the default pair and another one
SendToArgs == {
    [src |-> SocketAddr(<<0, 0, 0, 0>>, 0), dst |-> SocketAddr(<<255, 255, 255, 255>>, 9)],
    [src |-> SocketAddr(<<0, 0, 0, 0>>, 4000), dst |-> SocketAddr(<<192, 168, 1, 20>>, 7)] }

\* the MAC addresses the shared packet is built from
SendMacs == {<<1, 2, 3, 4, 5, 6>>, <<222, 173, 190, 239, 202, 254>>}

\* the io::Error causes of each socket operation
BindErrors == {"AddrInUse", "PermissionDenied"}
SetBroadcastErrors == {"InvalidInput"}
SendErrors == {"NetworkUnreachable"}

NoSock == 0
Closed == [open |-> FALSE]
Fds == 1..NumCallers
NotCalled == [entry |-> "none"]

IsBroadcast(addr) == addr.ip = <<255, 255, 255, 255>>
OpenFds == {f \in Fds : fds[f].open}
\* the descriptor a new socket gets: the lowest one not in use
FreeFd == CHOOSE f \in Fds \ OpenFds : \A g \in Fds \ OpenFds : f <= g
\* the local address of a fresh socket: the port asked for, or an ephemeral one for port 0
LocalAddr(addr, f) == IF addr.port = 0 THEN SocketAddr(addr.ip, 49152 + f) ELSE addr
PortFree(addr) == addr.port = 0 \/ \A f \in OpenFds : fds[f].local.port # addr.port

Log(p, entry) == ops' = [ops EXCEPT ![p] = Append(@, entry)]

InitSend ==
    /\ pc = [p \in Callers |-> "idle"]
    /\ mac \in SendMacs
    /\ packet = from_bytes(mac).val
    /\ data = <<>>
    /\ sep = 58
    /\ result = [p \in Callers |-> NotReturned]
    /\ args = [p \in Callers |-> NotCalled]
    /\ udp_sock = [p \in Callers |-> NoSock]
    /\ fds = [f \in Fds |-> Closed]
    /\ net = <<>>
    /\ ops = [p \in Callers |-> <<>>]

\* send_magic: send_magic_to with the default addresses
CallSendMagic(p) ==
    /\ pc[p] = "idle"
    /\ args' = [args EXCEPT ![p] =
                  [entry |-> "send_magic", src |-> send_magic_args.src, dst |-> send_magic_args.dst]]
    /\ pc' = [pc EXCEPT ![p] = "bind"]
    /\ UNCHANGED <<mac, data, sep, result, packet, udp_sock, fds, net, ops>>

CallSendMagicTo(p, a) ==
    /\ pc[p] = "idle"
    /\ args' = [args EXCEPT ![p] = [entry |-> "send_magic_to", src |-> a.src, dst |-> a.dst]]
    /\ pc' = [pc EXCEPT ![p] = "bind"]
    /\ UNCHANGED <<mac, data, sep, result, packet, udp_sock, fds, net, ops>>

\* let udp_sock = UdpSocket::bind(src)?;  -- the OS binds a fresh socket
BindOk(p) ==
    /\ pc[p] = "bind"
    /\ PortFree(args[p].src)
    /\ LET f == FreeFd
       IN /\ fds' = [fds EXCEPT ![f] = [open |-> TRUE, owner |-> p,
                                         local |-> LocalAddr(args[p].src, f),
                                         broadcast |-> FALSE]]
          /\ udp_sock' = [udp_sock EXCEPT ![p] = f]
          /\ Log(p, [op |-> "bind", ok |-> TRUE, fd |-> f, addr |-> args[p].src])
    /\ pc' = [pc EXCEPT ![p] = "set_broadcast"]
    /\ UNCHANGED <<mac, data, sep, result, packet, args, net>>

\* let udp_sock = UdpSocket::bind(src)?;  -- the OS refuses; no socket exists
BindFail(p, e) ==
    /\ pc[p] = "bind"
    /\ Log(p, [op |-> "bind", ok |-> FALSE, err |-> e, addr |-> args[p].src])
    /\ result' = [result EXCEPT ![p] = Err(ErrIO(e))]
    /\ pc' = [pc EXCEPT ![p] = "done"]
    /\ UNCHANGED <<mac, data, sep, packet, args, udp_sock, fds, net>>

\* udp_sock.set_broadcast(true)?;
SetBroadcastOk(p) ==
    /\ pc[p] = "set_broadcast"
    /\ Log(p, [op |-> "set_broadcast", ok |-> TRUE, fd |-> udp_sock[p],
               owner |-> fds[udp_sock[p]].owner])
    /\ fds' = [fds EXCEPT ![udp_sock[p]].broadcast = TRUE]
    /\ pc' = [pc EXCEPT ![p] = "send_to"]
    /\ UNCHANGED <<mac, data, sep, result, packet, args, udp_sock, net>>

SetBroadcastFail_ignored(p, e) ==
    /\ pc[p] = "set_broadcast"
    /\ Log(p, [op |-> "set_broadcast", ok |-> FALSE, err |-> e, fd |-> udp_sock[p],
               owner |-> fds[udp_sock[p]].owner])
    /\ pc' = [pc EXCEPT ![p] = "send_to"]
    /\ UNCHANGED <<mac, data, sep, result, packet, args, udp_sock, fds, net>>
SetBroadcastFail_leak(p, e) ==
    /\ pc[p] = "set_broadcast"
    /\ Log(p, [op |-> "set_broadcast", ok |-> FALSE, err |-> e, fd |-> udp_sock[p],
               owner |-> fds[udp_sock[p]].owner])
    /\ result' = [result EXCEPT ![p] = Err(ErrIO(e))]
    /\ udp_sock' = [udp_sock EXCEPT ![p] = NoSock]
    /\ pc' = [pc EXCEPT ![p] = "done"]
    /\ UNCHANGED <<mac, data, sep, packet, args, fds, net>>
SetBroadcastFail(p, e) ==
    /\ pc[p] = "set_broadcast"
    /\ Log(p, [op |-> "set_broadcast", ok |-> FALSE, err |-> e, fd |-> udp_sock[p],
               owner |-> fds[udp_sock[p]].owner])
    /\ result' = [result EXCEPT ![p] = Err(ErrIO(e))]
    /\ pc' = [pc EXCEPT ![p] = "drop"]
    /\ UNCHANGED <<mac, data, sep, packet, args, udp_sock, fds, net>>

\* let bytes_sent = udp_sock.send_to(&self.packet, dst)?; Ok(bytes_sent)
\* The OS hands the whole buffer to the network as one datagram and reports its length;
\* it refuses a broadcast destination on a socket without SO_BROADCAST.
SendOk_without_header(p) ==
    /\ pc[p] = "send_to"
    /\ IsBroadcast(args[p].dst) => fds[udp_sock[p]].broadcast
    /\ LET buf == extend_mac(mac)
       IN /\ net' = Append(net, [by |-> p, fd |-> udp_sock[p], from |-> fds[udp_sock[p]].local,
                                 to |-> args[p].dst, payload |-> buf])
          /\ result' = [result EXCEPT ![p] = Ok(Len(buf))]
    /\ Log(p, [op |-> "send_to", ok |-> TRUE, fd |-> udp_sock[p], addr |-> args[p].dst,
               owner |-> fds[udp_sock[p]].owner, broadcast |-> fds[udp_sock[p]].broadcast])
    /\ pc' = [pc EXCEPT ![p] = "drop"]
    /\ UNCHANGED <<mac, data, sep, packet, args, udp_sock, fds>>
SendOk(p) ==
    /\ pc[p] = "send_to"
    /\ IsBroadcast(args[p].dst) => fds[udp_sock[p]].broadcast
    /\ LET buf == packet.packet
       IN /\ net' = Append(net, [by |-> p, fd |-> udp_sock[p], from |-> fds[udp_sock[p]].local,
                                 to |-> args[p].dst, payload |-> buf])
          /\ result' = [result EXCEPT ![p] = Ok(Len(buf))]
    /\ Log(p, [op |-> "send_to", ok |-> TRUE, fd |-> udp_sock[p], addr |-> args[p].dst,
               owner |-> fds[udp_sock[p]].owner, broadcast |-> fds[udp_sock[p]].broadcast])
    /\ pc' = [pc EXCEPT ![p] = "drop"]
    /\ UNCHANGED <<mac, data, sep, packet, args, udp_sock, fds>>

SendFail_retry_once(p, e) ==
    /\ pc[p] = "send_to"
    /\ Log(p, [op |-> "send_to", ok |-> FALSE, err |-> e, fd |-> udp_sock[p],
               addr |-> args[p].dst, owner |-> fds[udp_sock[p]].owner,
               broadcast |-> fds[udp_sock[p]].broadcast])
    /\ result' = [result EXCEPT ![p] = Err(ErrIO(e))]
    /\ pc' = [pc EXCEPT ![p] = IF Len(ops[p]) < 3 THEN "send_to" ELSE "drop"]
    /\ UNCHANGED <<mac, data, sep, packet, args, udp_sock, fds, net>>
SendFail(p, e) ==
    /\ pc[p] = "send_to"
    /\ Log(p, [op |-> "send_to", ok |-> FALSE, err |-> e, fd |-> udp_sock[p],
               addr |-> args[p].dst, owner |-> fds[udp_sock[p]].owner,
               broadcast |-> fds[udp_sock[p]].broadcast])
    /\ result' = [result EXCEPT ![p] = Err(ErrIO(e))]
    /\ pc' = [pc EXCEPT ![p] = "drop"]
    /\ UNCHANGED <<mac, data, sep, packet, args, udp_sock, fds, net>>

\* udp_sock goes out of scope: the socket is closed, and the call returns
Drop(p) ==
    /\ pc[p] = "drop"
    /\ Log(p, [op |-> "close", ok |-> TRUE, fd |-> udp_sock[p],
               owner |-> fds[udp_sock[p]].owner])
    /\ fds' = [fds EXCEPT ![udp_sock[p]] = Closed]
    /\ udp_sock' = [udp_sock EXCEPT ![p] = NoSock]
    /\ pc' = [pc EXCEPT ![p] = "done"]
    /\ UNCHANGED <<mac, data, sep, result, packet, args, net>>

NextSend ==
    \E p \in Callers :
        \/ CallSendMagic(p)
        \/ \E a \in SendToArgs : CallSendMagicTo(p, a)
        \/ BindOk(p)
        \/ \E e \in BindErrors : BindFail(p, e)
        \/ SetBroadcastOk(p)
        \/ \E e \in SetBroadcastErrors : SetBroadcastFail(p, e)
        \/ SendOk(p)
        \/ \E e \in SendErrors : SendFail(p, e)
        \/ Drop(p)

SpecSend == InitSend /\ [][NextSend]_vars

-----------------------------------------------------------------------------
(* Vocabulary of the properties of the codec and the builder *)

\* the characters the hexadecimal notation uses: 0-9, A-F, a-f
HexDigitChars == (48..57) \cup (65..70) \cup (97..102)

\* the value of a hexadecimal digit, by its place in "0123456789ABCDEF" or "0123456789abcdef"
DigitTable == <<48, 49, 50, 51, 52, 53, 54, 55, 56, 57, 65, 66, 67, 68, 69, 70>>
LowerTable == <<48, 49, 50, 51, 52, 53, 54, 55, 56, 57, 97, 98, 99, 100, 101, 102>>
DigitValue(c) == (CHOOSE k \in 1..16 : DigitTable[k] = c \/ LowerTable[k] = c) - 1

\* the characters of the input that are not the separator, in order
Stripped == SelectSeq(data, LAMBDA c : c # sep)
AllHex(s) == \A i \in 1..Len(s) : s[i] \in HexDigitChars
FirstNonHex(s) == CHOOSE i \in 1..Len(s) :
    /\ s[i] \notin HexDigitChars
    /\ \A j \in 1..(i - 1) : s[j] \in HexDigitChars

\* the bytes that 2n hexadecimal digits denote
DigitsToBytes(s) ==
    [k \in 1..(Len(s) \div 2) |-> 16 * DigitValue(s[2 * k - 1]) + DigitValue(s[2 * k])]

\* the number of bytes of the UTF-8 encoding of a string, and the first byte of a character's
EncodedLen(s) == Len(s) + Cardinality({i \in 1..Len(s) : s[i] >= 128})
LeadByte(c) == IF c < 128 THEN c ELSE 192 + (c \div 64)

TestMacText == <<48, 49, 58, 48, 50, 58, 48, 51, 58, 48, 52, 58, 48, 53, 58, 48, 54>>
TestBadCharText == <<90, 90, 58, 48, 50, 58, 48, 51, 58, 48, 52, 58, 48, 53, 58, 48, 54>>
TestBadSepText == <<48, 49, 48, 48, 50, 58, 48, 51, 58, 48, 52, 58, 48, 53, 58, 48, 54>>

-----------------------------------------------------------------------------
(* C1: for every 6-byte slice m, from_bytes(m) succeeds with a 102-byte packet: six 0xFF
   bytes, then m sixteen times in a row; for m = [0xFF]*6 every byte is 0xFF. *)
C1_MagicPacketLayout ==
    (pc = "done" /\ Len(mac) = 6) =>
        /\ result.ok
        /\ LET p == result.val.packet
           IN /\ Len(p) = 102
              /\ \A i \in 1..6 : p[i] = 255
              /\ \A i \in 0..15 : \A j \in 1..6 : p[6 + 6 * i + j] = mac[j]
              /\ (mac = <<255, 255, 255, 255, 255, 255>> => \A i \in 1..Len(p) : p[i] = 255)

C1_Witness ==
    /\ pc = "done"
    /\ mac = <<0, 18, 255, 18, 0, 255>>
    /\ result.ok
    /\ Len(result.val.packet) = 102

(* C5: for every byte slice whose length is not 6 (the empty one and longer ones
   included), from_bytes fails with InvalidHexArrayLength and builds no packet. *)
C5_WrongLengthRejected ==
    (pc = "done" /\ Len(mac) # 6) => result = Err(InvalidHexArrayLength)

C5_Witness ==
    /\ pc = "done"
    /\ Len(mac) = 7
    /\ ~result.ok

-----------------------------------------------------------------------------
(* C2, as stated: when the characters left after removing the separator are all
   hexadecimal digits but not exactly 12 of them, from_string fails with
   InvalidHexStringLength. *)
C2_AsStated ==
    (pc = "done" /\ AllHex(Stripped) /\ Len(Stripped) # 12) =>
        result = Err(InvalidHexStringLength)

(* C2, amended: when the characters left after removing the separator are all
   hexadecimal digits but not exactly 12 of them, from_string fails: with
   InvalidHexStringLength when their number is even (the empty input included), and
   with the hex decoder's odd-length error when it is odd ("01002:03:04:05:06"). *)
C2_LengthErrorByParity ==
    (pc = "done" /\ AllHex(Stripped) /\ Len(Stripped) # 12) =>
        IF Len(Stripped) % 2 = 0
        THEN result = Err(InvalidHexStringLength)
        ELSE result = Err(ErrHex(OddLength))

C2_Witness ==
    /\ pc = "done"
    /\ data = TestBadSepText
    /\ sep = 58
    /\ result = Err(ErrHex(OddLength))

(* C3, as stated: when a character left after removing the separator is not a
   hexadecimal digit, from_string fails with the hex decoder's invalid-character error
   carrying the first such character and its position among the characters left. *)
C3_AsStated ==
    (pc = "done" /\ ~AllHex(Stripped)) =>
        LET i == FirstNonHex(Stripped)
        IN result = Err(ErrHex(InvalidHexCharacter(Stripped[i], i - 1)))

(* C3, amended: when a character left after removing the separator is not a
   hexadecimal digit, from_string fails with a hex decoder error: when the UTF-8
   encoding of the characters left has an even number of bytes, the invalid-character
   error carrying the first offending byte (the character itself when it is ASCII) and
   its position among the characters left; when it has an odd number of bytes, the
   odd-length error, which carries no character. *)
C3_HexErrorByParity ==
    (pc = "done" /\ ~AllHex(Stripped)) =>
        LET i == FirstNonHex(Stripped)
        IN IF EncodedLen(Stripped) % 2 = 0
           THEN result = Err(ErrHex(InvalidHexCharacter(LeadByte(Stripped[i]), i - 1)))
           ELSE result = Err(ErrHex(OddLength))

C3_Witness ==
    /\ pc = "done"
    /\ data = TestBadCharText
    /\ sep = 58
    /\ result = Err(ErrHex(InvalidHexCharacter(90, 0)))

(* C4: from_string removes every occurrence of the separator, wherever it stands;
   whenever exactly 12 hexadecimal digits are left it succeeds with the packet that
   from_bytes builds from the 6 bytes the digits denote, so the result depends only
   on the digits left; "01:02:03:04:05:06" gives from_bytes([1,2,3,4,5,6]). *)
C4_SeparatorsStripped ==
    /\ (pc = "done" /\ AllHex(Stripped) /\ Len(Stripped) = 12) =>
          /\ result.ok
          /\ result = from_bytes(DigitsToBytes(Stripped))
    /\ (pc = "done" /\ data = TestMacText /\ sep = 58) =>
          result = from_bytes(<<1, 2, 3, 4, 5, 6>>)

\* a separator in the middle of an octet, and a successful parse
C4_Witness ==
    /\ pc = "done"
    /\ result.ok
    /\ \E i \in 1..Len(data) :
          /\ data[i] = sep
          /\ Len(SelectSeq(SubSeq(data, 1, i), LAMBDA c : c # sep)) % 2 = 1

-----------------------------------------------------------------------------
(* Vocabulary of the properties of the sender *)

\* the socket operations a call performed itself, without the closing of the socket
SockOps(p) == SelectSeq(ops[p], LAMBDA e : e.op # "close")
\* the datagrams a call handed to the network
SentBy(p) == SelectSeq(net, LAMBDA d : d.by = p)
\* an operation without the descriptor it ran on: its name, its address, how it ended
Shape(e) ==
    [op |-> e.op, ok |-> e.ok,
     addr |-> IF e.op \in {"bind", "send_to"} THEN e.addr ELSE <<>>,
     err |-> IF e.ok THEN "" ELSE e.err]
Shapes(p) == [i \in 1..Len(SockOps(p)) |-> Shape(SockOps(p)[i])]
Outcomes(p) == [i \in 1..Len(SockOps(p)) |->
                   [ok |-> SockOps(p)[i].ok,
                    err |-> IF SockOps(p)[i].ok THEN "" ELSE SockOps(p)[i].err]]
OpOrder == <<"bind", "set_broadcast", "send_to">>
\* the 102 bytes of the magic packet of a MAC address, byte by byte
MagicBytes(m) == [i \in 1..102 |-> IF i <= 6 THEN 255 ELSE m[((i - 7) % 6) + 1]]

(* C6: whenever a send completes successfully its result is Ok(102) and exactly one
   datagram went out for it, to the destination given, 102 bytes long and equal to the
   packet's payload as built; the packet is the same before and after. *)
C6_SendDeliversPacket ==
    LET built == MagicBytes(mac)
    IN /\ packet.packet = built
       /\ \A p \in Callers :
             (pc[p] = "done" /\ result[p].ok) =>
                 LET sent == SentBy(p)
                 IN /\ result[p] = Ok(102)
                    /\ Len(sent) = 1
                    /\ sent[1].to = args[p].dst
                    /\ Len(sent[1].payload) = 102
                    /\ sent[1].payload = built

C6_Witness ==
    \E p \in Callers :
        /\ pc[p] = "done"
        /\ result[p] = Ok(102)
        /\ args[p].entry = "send_magic_to"
        /\ Len(SentBy(p)) = 1

(* C7: a call returns Err(IO(e)) whenever its bind, set_broadcast or send_to failed
   with cause e; a returned call always has a result; the result is Ok only when all
   three operations succeeded. *)
C7_FailuresSurfaceAsIO ==
    \A p \in Callers :
        pc[p] = "done" =>
            LET log == SockOps(p)
            IN /\ result[p] # NotReturned
               /\ \A i \in 1..Len(log) :
                     ~log[i].ok => result[p] = Err(ErrIO(log[i].err))
               /\ result[p].ok <=>
                     /\ Len(log) = 3
                     /\ \A i \in 1..3 : log[i].ok /\ log[i].op = OpOrder[i]

C7_Witness ==
    \E p \in Callers :
        /\ pc[p] = "done"
        /\ Len(SockOps(p)) = 2
        /\ SockOps(p)[1].ok
        /\ ~SockOps(p)[2].ok
        /\ result[p] = Err(ErrIO("InvalidInput"))

(* C8: send_magic is send_magic_to with source 0.0.0.0:0 and destination
   255.255.255.255:9: a send_magic call and a send_magic_to call with those addresses
   whose socket operations end the same way performed the same operations on the same
   addresses and returned the same result. *)
C8_SendMagicIsSendToDefaults ==
    \A p \in Callers : \A q \in Callers :
        ( /\ pc[p] = "done"
          /\ pc[q] = "done"
          /\ args[p].entry = "send_magic"
          /\ args[q] = [entry |-> "send_magic_to",
                        src |-> SocketAddr(<<0, 0, 0, 0>>, 0),
                        dst |-> SocketAddr(<<255, 255, 255, 255>>, 9)]
          /\ Outcomes(p) = Outcomes(q) )
        => /\ Shapes(p) = Shapes(q)
           /\ result[p] = result[q]

C8_Witness ==
    \E p \in Callers : \E q \in Callers :
        /\ pc[p] = "done"
        /\ pc[q] = "done"
        /\ args[p].entry = "send_magic"
        /\ args[q].entry = "send_magic_to"
        /\ args[q].dst = SocketAddr(<<255, 255, 255, 255>>, 9)
        /\ result[p].ok
        /\ result[q].ok

(* C9: under every interleaving of the calls, a call operates only on the socket it
   bound itself, no two calls hold the same socket, and when a call has returned (on
   any exit path) its socket is closed; once all calls have returned no socket is
   open. *)
C9_SocketOwnedAndReleased ==
    /\ \A p \in Callers :
          /\ \A i \in 2..Len(ops[p]) :
                /\ ops[p][i].fd = ops[p][1].fd
                /\ ops[p][i].owner = p
          /\ udp_sock[p] # NoSock =>
                /\ fds[udp_sock[p]].open
                /\ fds[udp_sock[p]].owner = p
                /\ \A q \in Callers \ {p} : udp_sock[q] # udp_sock[p]
          /\ pc[p] = "done" =>
                /\ udp_sock[p] = NoSock
                /\ \A f \in OpenFds : fds[f].owner # p
    /\ (\A p \in Callers : pc[p] \in {"idle", "done"}) => OpenFds = {}

\* every call has returned, one after a failure to enable broadcast, one after a send
C9_Witness ==
    /\ \A p \in Callers : pc[p] = "done"
    /\ \E p \in Callers : Len(SockOps(p)) = 2 /\ ~result[p].ok
    /\ \E p \in Callers : Len(SockOps(p)) = 3
    /\ OpenFds = {}

(* C10: within one call the socket operations are bind, set_broadcast, send_to in this
   order, each at most once and none after a failure; a returned call attempted the
   send exactly when bind and set_broadcast succeeded; broadcast was enabled on the
   socket when the send ran; at most one datagram goes out per call. *)
C10_OperationOrder ==
    \A p \in Callers :
        LET log == SockOps(p)
        IN /\ Len(log) <= 3
           /\ \A i \in 1..Len(log) : log[i].op = OpOrder[i]
           /\ \A i \in 1..(Len(log) - 1) : log[i].ok
           /\ \A i \in 1..Len(log) : log[i].op = "send_to" => log[i].broadcast
           /\ pc[p] = "done" =>
                 (Len(log) = 3 <=> (Len(log) >= 2 /\ log[1].ok /\ log[2].ok))
           /\ Len(SentBy(p)) = (IF Len(log) = 3 /\ log[3].ok THEN 1 ELSE 0)

C10_Witness ==
    \E p \in Callers :
        /\ pc[p] = "done"
        /\ Len(SockOps(p)) = 3
        /\ \A i \in 1..3 : SockOps(p)[i].ok

====
